---------------------------- MODULE Spec2Model ----------------------------
(***************************************************************************)
(* Model of the Robokassa payment integration:                             *)
(*   src/robokassa/robokassa_client.py  signature engine, URL builder,     *)
(*                                      callback verifier                  *)
(*   src/robokassa/app.py               order store and request handlers   *)
(*   src/robokassa/config.py            configuration from the environment *)
(*                                                                         *)
(* Python str values are sequences of one-character strings, so that       *)
(* joining, prefix stripping, case folding and percent-encoding are        *)
(* computed character by character.  A Python dict is the sequence of its  *)
(* <<key, value>> items in insertion order, keys distinct.  None is <<>>   *)
(* and a present optional value x is <<x>>.                                *)
(***************************************************************************)
EXTENDS Integers, Sequences, FiniteSets, TLC

VARIABLES
    config,     \* app.config: the values loaded from Config at start-up
    ORDERS,     \* the process-wide order mapping of app.py
    resp,       \* the response of the last request handled
    op,         \* the handler that produced resp ("start" before any request)
    lastForm,   \* the form or query parameters of the last request
    received,   \* order ids for which a correctly signed callback was received
    sigIn,      \* signature engine: the inputs under test
    sigOut,     \* signature engine: the result of the last operation applied
    threads,    \* concurrent callbacks: each request thread's position and locals
    before,     \* concurrent callbacks: ORDERS when the callbacks arrived
    generation  \* concurrent callbacks: how many dicts were stored under the order id

vars == <<config, ORDERS, resp, op, lastForm, received, sigIn, sigOut, threads, before,
          generation>>

\* The variables of the concurrent callbacks
concVars == <<threads, before, generation>>

---------------------------------------------------------------------------
(* Characters and Python str operations                                    *)

\* The printable ASCII characters in code-point order: chr(32)..chr(95) and
\* chr(97)..chr(126) (chr(96), the grave accent, cannot be written in a string here).
PrintableLow ==
    <<" ", "!", "\"", "#", "$", "%", "&", "'", "(", ")", "*", "+", ",", "-", ".", "/",
      "0", "1", "2", "3", "4", "5", "6", "7", "8", "9", ":", ";", "<", "=", ">", "?",
      "@", "A", "B", "C", "D", "E", "F", "G", "H", "I", "J", "K", "L", "M", "N", "O",
      "P", "Q", "R", "S", "T", "U", "V", "W", "X", "Y", "Z", "[", "\\", "]", "^", "_">>

PrintableHigh ==
    <<"a", "b", "c", "d", "e", "f", "g", "h", "i", "j", "k", "l", "m", "n", "o",
      "p", "q", "r", "s", "t", "u", "v", "w", "x", "y", "z", "{", "|", "}", "~">>

Chars ==
    { PrintableLow[i] : i \in 1..Len(PrintableLow) }
        \cup { PrintableHigh[i] : i \in 1..Len(PrintableHigh) }

\* ord(c) and chr(n) on these characters.
Ord ==
    [c \in Chars |->
        IF \E i \in 1..Len(PrintableLow) : PrintableLow[i] = c
        THEN 31 + (CHOOSE i \in 1..Len(PrintableLow) : PrintableLow[i] = c)
        ELSE 96 + (CHOOSE i \in 1..Len(PrintableHigh) : PrintableHigh[i] = c)]

Chr(n) == IF n <= 95 THEN PrintableLow[n - 31] ELSE PrintableHigh[n - 96]

\* str.upper() of one character: a..z map to A..Z, everything else is kept.
UpperChar == [c \in Chars |-> IF Ord[c] >= 97 /\ Ord[c] <= 122 THEN Chr(Ord[c] - 32) ELSE c]

LowerChar == [c \in Chars |-> IF Ord[c] >= 65 /\ Ord[c] <= 90 THEN Chr(Ord[c] + 32) ELSE c]

StrUpper(s) == [i \in 1..Len(s) |-> UpperChar[s[i]]]

StrLower(s) == [i \in 1..Len(s) |-> LowerChar[s[i]]]

\* The order < of Python on str: lexicographic by code point, a proper prefix is smaller.
RECURSIVE StrLess(_, _)
StrLess(a, b) ==
    IF b = <<>> THEN FALSE
    ELSE IF a = <<>> THEN TRUE
    ELSE IF Ord[Head(a)] # Ord[Head(b)] THEN Ord[Head(a)] < Ord[Head(b)]
    ELSE StrLess(Tail(a), Tail(b))

\* str.startswith(prefix)
StartsWith(s, prefix) ==
    /\ Len(s) >= Len(prefix)
    /\ SubSeq(s, 1, Len(prefix)) = prefix

\* sep.join(parts)
RECURSIVE Join(_, _)
Join(sep, parts) ==
    IF parts = <<>> THEN <<>>
    ELSE IF Len(parts) = 1 THEN parts[1]
    ELSE parts[1] \o sep \o Join(sep, Tail(parts))

HexDigitsLower ==
    <<"0", "1", "2", "3", "4", "5", "6", "7", "8", "9", "a", "b", "c", "d", "e", "f">>

HexDigitsUpper ==
    <<"0", "1", "2", "3", "4", "5", "6", "7", "8", "9", "A", "B", "C", "D", "E", "F">>

\* The two lower-case hexadecimal digits of a character's byte.
ByteHex == [c \in Chars |-> <<HexDigitsLower[(Ord[c] \div 16) + 1], HexDigitsLower[(Ord[c] % 16) + 1]>>]

None == <<>>

Some(x) == <<x>>

---------------------------------------------------------------------------
(* Python dict as a sequence of <<key, value>> items                       *)

DictKeys(d) == { d[i][1] : i \in 1..Len(d) }

DictHas(d, k) == k \in DictKeys(d)

\* d[k] for a key that is present
DictGet(d, k) == d[CHOOSE i \in 1..Len(d) : d[i][1] = k][2]

\* d.get(k, default)
DictGetOr(d, k, default) == IF DictHas(d, k) THEN DictGet(d, k) ELSE default

\* d[k] = v: an existing key keeps its position, a new key goes last.
DictSet(d, k, v) ==
    IF DictHas(d, k)
    THEN [i \in 1..Len(d) |-> IF d[i][1] = k THEN <<k, v>> ELSE d[i]]
    ELSE Append(d, <<k, v>>)

\* d.update(e)
RECURSIVE DictUpdate(_, _)
DictUpdate(d, e) ==
    IF e = <<>> THEN d
    ELSE DictUpdate(DictSet(d, e[1][1], e[1][2]), Tail(e))

\* Two dicts are equal in Python when they hold the same items, in any order.
DictItems(d) == { d[i] : i \in 1..Len(d) }

---------------------------------------------------------------------------
(* robokassa_client.py: signature engine                                   *)

ROBOKASSA_GATEWAY ==
    <<"h", "t", "t", "p", "s", ":", "/", "/", "a", "u", "t", "h", ".", "r", "o", "b", "o", "k", "a", "s", "s", "a", ".", "r", "u", "/", "M", "e", "r", "c", "h", "a", "n", "t", "/", "I", "n", "d", "e", "x", ".", "a", "s", "p", "x">>

ShpPrefix == <<"S", "h", "p", "_">>

\* sorted(items, key=lambda x: x[0]): a stable insertion of one item into a
\* list already sorted by key.
RECURSIVE SortedInsert(_, _)
SortedInsert(sorted, item) ==
    IF sorted = <<>> THEN <<item>>
    ELSE IF StrLess(item[1], Head(sorted)[1]) THEN <<item>> \o sorted
    ELSE <<Head(sorted)>> \o SortedInsert(Tail(sorted), item)

RECURSIVE SortedByKey(_)
SortedByKey(items) ==
    IF items = <<>> THEN <<>>
    ELSE SortedInsert(SortedByKey(SubSeq(items, 1, Len(items) - 1)), items[Len(items)])

\* f"Shp_{k}={v}"
ShpField(item) == ShpPrefix \o item[1] \o <<"=">> \o item[2]

MutFormatShpUnsorted(shp) ==
    IF shp = <<>> THEN <<>>
    ELSE Join(<<":">>, [i \in 1..Len(shp) |-> ShpField(shp[i])])

_format_shp_part(shp) ==
    IF shp = <<>> THEN <<>>
    ELSE LET items == SortedByKey(shp)
         IN  Join(<<":">>, [i \in 1..Len(items) |-> ShpField(items[i])])

\* hashlib.md5(s.encode("utf-8")).hexdigest(): a lower-case hexadecimal digest.
\* MD5 is taken to be collision-free and is represented by an injective
\* digest, the hexadecimal rendering of the bytes of s.
md5_hexdigest(s) ==
    [i \in 1..(2 * Len(s)) |-> ByteHex[s[(i + 1) \div 2]][2 - (i % 2)]]

_md5_upper(s) == StrUpper(md5_hexdigest(s))

\* base_for_sign of build_payment_url
MutBaseSecretLast(merchant_login, password1, out_sum, inv_id, shp) ==
    LET base == merchant_login \o <<":">> \o out_sum \o <<":">> \o inv_id
        shp_part == _format_shp_part(shp)
    IN  IF shp_part # <<>>
        THEN base \o <<":">> \o shp_part \o <<":">> \o password1
        ELSE base \o <<":">> \o password1

build_payment_url_base(merchant_login, password1, out_sum, inv_id, shp) ==
    LET base_for_sign ==
            merchant_login \o <<":">> \o out_sum \o <<":">> \o inv_id \o <<":">> \o password1
        shp_part == _format_shp_part(shp)
    IN  IF shp_part # <<>> THEN base_for_sign \o <<":">> \o shp_part ELSE base_for_sign

build_payment_url_signature(merchant_login, password1, out_sum, inv_id, shp) ==
    _md5_upper(build_payment_url_base(merchant_login, password1, out_sum, inv_id, shp))

MutResultBaseWithoutAmount(out_sum, inv_id, password2, shp) ==
    LET base == inv_id \o <<":">> \o password2
        shp_part == _format_shp_part(shp)
    IN  IF shp_part # <<>> THEN base \o <<":">> \o shp_part ELSE base

\* base of verify_signature_from_result
verify_signature_from_result_base(out_sum, inv_id, password2, shp) ==
    LET base == out_sum \o <<":">> \o inv_id \o <<":">> \o password2
        shp_part == _format_shp_part(shp)
    IN  IF shp_part # <<>> THEN base \o <<":">> \o shp_part ELSE base

MutVerifyCaseSensitive(out_sum, inv_id, signature_value, password2, shp) ==
    _md5_upper(verify_signature_from_result_base(out_sum, inv_id, password2, shp))
        = signature_value

MutVerifyPrefix(out_sum, inv_id, signature_value, password2, shp) ==
    LET expected == _md5_upper(verify_signature_from_result_base(out_sum, inv_id, password2, shp))
        given == StrUpper(signature_value)
    IN  /\ Len(given) = Len(expected)
        /\ \A i \in 1..(Len(expected) - 1) : given[i] = expected[i]

verify_signature_from_result(out_sum, inv_id, signature_value, password2, shp) ==
    LET expected == _md5_upper(verify_signature_from_result_base(out_sum, inv_id, password2, shp))
    IN  expected = StrUpper(signature_value)

---------------------------------------------------------------------------
(* robokassa_client.py: payment URL builder                                *)

K_MerchantLogin == <<"M", "e", "r", "c", "h", "a", "n", "t", "L", "o", "g", "i", "n">>

K_OutSum == <<"O", "u", "t", "S", "u", "m">>

K_InvId == <<"I", "n", "v", "I", "d">>

K_SignatureValue == <<"S", "i", "g", "n", "a", "t", "u", "r", "e", "V", "a", "l", "u", "e">>

K_Description == <<"D", "e", "s", "c", "r", "i", "p", "t", "i", "o", "n">>

K_IsTest == <<"I", "s", "T", "e", "s", "t">>

\* The characters urllib.parse.quote never escapes: letters, digits and "_.-~".
IsUnreserved(c) ==
    \/ Ord[c] >= 48 /\ Ord[c] <= 57
    \/ Ord[c] >= 65 /\ Ord[c] <= 90
    \/ Ord[c] >= 97 /\ Ord[c] <= 122
    \/ c \in {"_", ".", "-", "~"}

\* quote_plus of one character: a space becomes "+", an unreserved character is
\* kept, any other becomes "%XX" with upper-case hexadecimal digits.
QuoteChar ==
    [c \in Chars |->
        IF c = " " THEN <<"+">>
        ELSE IF IsUnreserved(c) THEN <<c>>
        ELSE <<"%", HexDigitsUpper[(Ord[c] \div 16) + 1], HexDigitsUpper[(Ord[c] % 16) + 1]>>]

RECURSIVE quote_plus(_)
quote_plus(s) == IF s = <<>> THEN <<>> ELSE QuoteChar[Head(s)] \o quote_plus(Tail(s))

\* urlencode(params, quote_via=quote_plus)
urlencode(params) ==
    Join(<<"&">>, [i \in 1..Len(params) |->
                      quote_plus(params[i][1]) \o <<"=">> \o quote_plus(params[i][2])])

MutAddShpParamsNone(params, shp) == params

\* for k, v in shp.items(): params[f"Shp_{k}"] = v
RECURSIVE AddShpParams(_, _)
AddShpParams(params, shp) ==
    IF shp = <<>> THEN params
    ELSE AddShpParams(DictSet(params, ShpPrefix \o shp[1][1], shp[1][2]), Tail(shp))

\* The params dict of build_payment_url.  description and extra_params are
\* optional (None or a value); shp is a dict, {} when None.
build_payment_url_params(merchant_login, password1, out_sum, inv_id, description, shp, is_test, extra_params) ==
    LET signature == build_payment_url_signature(merchant_login, password1, out_sum, inv_id, shp)
        p0 == << <<K_MerchantLogin, merchant_login>>, <<K_OutSum, out_sum>>,
                 <<K_InvId, inv_id>>, <<K_SignatureValue, signature>> >>
        p1 == IF description # None /\ description[1] # <<>>
              THEN DictSet(p0, K_Description, description[1]) ELSE p0
        p2 == IF is_test THEN DictSet(p1, K_IsTest, <<"1">>) ELSE p1
        p3 == AddShpParams(p2, shp)
    IN  IF extra_params # None /\ extra_params[1] # <<>>
        THEN DictUpdate(p3, extra_params[1]) ELSE p3

build_payment_url(merchant_login, password1, out_sum, inv_id, description, shp, is_test, extra_params) ==
    ROBOKASSA_GATEWAY \o <<"?">>
        \o urlencode(build_payment_url_params(merchant_login, password1, out_sum, inv_id,
                                              description, shp, is_test, extra_params))

---------------------------------------------------------------------------
(* The web layer: decoding a query string into request.args                *)

\* s.split(sep) for a one-character separator
RECURSIVE Split(_, _)
Split(s, sep) ==
    IF \A i \in 1..Len(s) : s[i] # sep THEN <<s>>
    ELSE LET i == CHOOSE j \in 1..Len(s) : s[j] = sep /\ \A k \in 1..(j - 1) : s[k] # sep
         IN  <<SubSeq(s, 1, i - 1)>> \o Split(SubSeq(s, i + 1, Len(s)), sep)

HexValue(c) ==
    CHOOSE n \in 0..15 : HexDigitsUpper[n + 1] = c \/ HexDigitsLower[n + 1] = c

IsHexDigit(c) == \E n \in 0..15 : HexDigitsUpper[n + 1] = c \/ HexDigitsLower[n + 1] = c

\* unquote_plus: "+" is a space, "%XX" is the character with that code.
RECURSIVE unquote_plus(_)
unquote_plus(s) ==
    IF s = <<>> THEN <<>>
    ELSE IF s[1] = "+" THEN <<" ">> \o unquote_plus(Tail(s))
    ELSE IF /\ s[1] = "%"
            /\ Len(s) >= 3
            /\ IsHexDigit(s[2])
            /\ IsHexDigit(s[3])
            /\ 16 * HexValue(s[2]) + HexValue(s[3]) >= 32
            /\ 16 * HexValue(s[2]) + HexValue(s[3]) <= 126
            /\ 16 * HexValue(s[2]) + HexValue(s[3]) # 96
         THEN <<Chr(16 * HexValue(s[2]) + HexValue(s[3]))>> \o unquote_plus(SubSeq(s, 4, Len(s)))
    ELSE <<s[1]>> \o unquote_plus(Tail(s))

\* One "name=value" field of a query string, split at its first "=".
QueryField(field) ==
    IF \A i \in 1..Len(field) : field[i] # "="
    THEN <<unquote_plus(field), <<>> >>
    ELSE LET i == CHOOSE j \in 1..Len(field) :
                      field[j] = "=" /\ \A k \in 1..(j - 1) : field[k] # "="
         IN  <<unquote_plus(SubSeq(field, 1, i - 1)), unquote_plus(SubSeq(field, i + 1, Len(field)))>>

\* request.args for a query string: get() and items() give the first value of
\* each name, empty fields are skipped.
RECURSIVE QueryToDict(_, _)
QueryToDict(fields, acc) ==
    IF fields = <<>> THEN acc
    ELSE LET kv == QueryField(Head(fields))
         IN  IF Head(fields) = <<>> \/ DictHas(acc, kv[1])
             THEN QueryToDict(Tail(fields), acc)
             ELSE QueryToDict(Tail(fields), Append(acc, kv))

\* request.args of a GET for url: everything after the first "?".
RequestArgsOfUrl(url) ==
    IF \A i \in 1..Len(url) : url[i] # "?" THEN <<>>
    ELSE LET i == CHOOSE j \in 1..Len(url) : url[j] = "?" /\ \A k \in 1..(j - 1) : url[k] # "?"
         IN  QueryToDict(Split(SubSeq(url, i + 1, Len(url)), "&"), <<>>)

\* {k[4:]: v for k, v in params.items() if k.startswith("Shp_")}
RECURSIVE ShpOfParams(_)
ShpOfParams(params) ==
    IF params = <<>> THEN <<>>
    ELSE LET rest == ShpOfParams(SubSeq(params, 1, Len(params) - 1))
             last == params[Len(params)]
         IN  IF StartsWith(last[1], ShpPrefix)
             THEN DictSet(rest, SubSeq(last[1], 5, Len(last[1])), last[2])
             ELSE rest

---------------------------------------------------------------------------
(* config.py: the configuration read from the environment                  *)

\* An environment gives each variable a value or leaves it unset (None).
EmptyEnv ==
    [ROBOKASSA_MERCHANT_LOGIN |-> None, ROBOKASSA_PASSWORD1 |-> None,
     ROBOKASSA_PASSWORD2 |-> None, ROBOKASSA_TEST_MODE |-> None]

\* os.environ.get(name, default)
EnvGet(value, default) == IF value = None THEN default ELSE value[1]

\* class Config, read once when the module is imported.
Config(env) ==
    [ROBOKASSA_MERCHANT_LOGIN |-> EnvGet(env.ROBOKASSA_MERCHANT_LOGIN, <<"r", "o", "b", "o", "-", "d", "e", "m", "o">>),
     ROBOKASSA_PASSWORD1 |-> EnvGet(env.ROBOKASSA_PASSWORD1, <<"p", "a", "s", "s", "w", "o", "r", "d", "1">>),
     ROBOKASSA_PASSWORD2 |-> EnvGet(env.ROBOKASSA_PASSWORD2, <<"p", "a", "s", "s", "w", "o", "r", "d", "2">>),
     ROBOKASSA_TEST_MODE |-> (EnvGet(env.ROBOKASSA_TEST_MODE, <<"1">>) = <<"1">>)]

---------------------------------------------------------------------------
(* app.py: decimal amounts                                                 *)

IsDigit(c) == Ord[c] >= 48 /\ Ord[c] <= 57

RECURSIVE DigitsValue(_)
DigitsValue(s) ==
    IF s = <<>> THEN 0 ELSE 10 * DigitsValue(SubSeq(s, 1, Len(s) - 1)) + (Ord[s[Len(s)]] - 48)

\* str.strip() for spaces
RECURSIVE Strip(_)
Strip(s) ==
    IF s = <<>> THEN s
    ELSE IF Head(s) = " " THEN Strip(Tail(s))
    ELSE IF s[Len(s)] = " " THEN Strip(SubSeq(s, 1, Len(s) - 1))
    ELSE s

\* Decimal(s) for the amounts of this model, which are written as an optional
\* sign and digits or are not numbers at all: the value, or None when
\* Decimal raises.  A whole-number Decimal is represented by its integer.
DecimalOfStr(s) ==
    LET digits == IF s # <<>> /\ s[1] \in {"-", "+"} THEN Tail(s) ELSE s
    IN  IF digits = <<>> \/ \E i \in 1..Len(digits) : ~IsDigit(digits[i]) THEN None
        ELSE IF s[1] = "-" THEN Some(0 - DigitsValue(digits))
        ELSE Some(DigitsValue(digits))

RECURSIVE NatStr(_)
NatStr(n) ==
    IF n < 10 THEN <<Chr(48 + n)>> ELSE NatStr(n \div 10) \o <<Chr(48 + (n % 10))>>

\* str(n) of a whole number (an int, or a whole-number Decimal)
IntStr(n) == IF n < 0 THEN <<"-">> \o NatStr(0 - n) ELSE NatStr(n)

---------------------------------------------------------------------------
(* app.py: the order store                                                 *)

K_amount == <<"a", "m", "o", "u", "n", "t">>

K_description == <<"d", "e", "s", "c", "r", "i", "p", "t", "i", "o", "n">>

K_order_id == <<"o", "r", "d", "e", "r", "_", "i", "d">>

K_shp == <<"s", "h", "p">>

DefaultShp == << <<<<"u", "s", "e", "r">>, <<"d", "e", "m", "o">>>> >>

\* The default description of create_order, "Заказ", transliterated: the
\* characters of the model are ASCII.
DefaultDescription == <<"Z", "a", "k", "a", "z">>

\* An order record: amount and description are None or a value; shp and
\* robokassa are None while the record has no such key.
OrderRecord(id, amount, description, status, shp, robokassa) ==
    [id |-> id, amount |-> amount, description |-> description, status |-> status,
     shp |-> shp, robokassa |-> robokassa]

\* ORDERS with ORDERS[id] = record
StorePut(store, id, record) ==
    [x \in (DOMAIN store) \cup {id} |-> IF x = id THEN record ELSE store[x]]

EmptyStore == [x \in {} |-> None]

\* _get_order_data raises OrderNotFoundError exactly when this is false
\* (a stored record is a non-empty dict, so "not order" means "no such key").
OrderFound(store, order_id) == order_id \in DOMAIN store

MutUpdateSkipsUnknown(store, order_id, status, robokassa_data) ==
    IF ~OrderFound(store, order_id) THEN store
    ELSE IF robokassa_data # None /\ robokassa_data[1] # <<>>
         THEN [store EXCEPT
                  ![order_id].status = status,
                  ![order_id].robokassa =
                      Some(DictUpdate(IF @ = None THEN <<>> ELSE @[1], robokassa_data[1]))]
         ELSE [store EXCEPT ![order_id].status = status]

_update_order_status(store, order_id, status, robokassa_data) ==
    IF ~OrderFound(store, order_id)
    THEN StorePut(store, order_id, OrderRecord(order_id, None, None, status, None, None))
    ELSE IF robokassa_data # None /\ robokassa_data[1] # <<>>
         THEN [store EXCEPT
                  ![order_id].status = status,
                  ![order_id].robokassa =
                      Some(DictUpdate(IF @ = None THEN <<>> ELSE @[1], robokassa_data[1]))]
         ELSE [store EXCEPT ![order_id].status = status]

\* _validate_order_parameters: None when it returns, else the message of the
\* ValueError it raises.
_validate_order_parameters(order_id, amount, description) ==
    IF amount <= 0 THEN Some(<<"A", "m", "o", "u", "n", "t", " ", "m", "u", "s", "t", " ", "b", "e", " ", "p", "o", "s", "i", "t", "i", "v", "e">>)
    ELSE IF description = <<>> THEN Some(<<"D", "e", "s", "c", "r", "i", "p", "t", "i", "o", "n", " ", "r", "e", "q", "u", "i", "r", "e", "d">>)
    ELSE None

---------------------------------------------------------------------------
(* app.py: the request handlers.  Each takes the store and the request's   *)
(* parameters and gives the store it leaves and the response it returns.   *)

\* A response: kind is "text", "redirect" or the template rendered; body is
\* the text, the redirect location or the template's error_message.
Response(status, kind, body, order_id, payment_data) ==
    [status |-> status, kind |-> kind, body |-> body, order_id |-> order_id,
     payment_data |-> payment_data]

Text(status, body) == Response(status, "text", body, <<>>, None)

Redirect(location) == Response(302, "redirect", location, <<>>, None)

Handled(store, response) == [store |-> store, resp |-> response]

MutCreateOrderKeyedByCount(store, form) ==
    LET amount_dec == DecimalOfStr(Strip(DictGetOr(form, K_amount, <<"0">>)))
        description == Strip(DictGetOr(form, K_description, DefaultDescription))
        given == DictGetOr(form, K_order_id, <<>>)
        key == IntStr(Cardinality(DOMAIN store) + 1000)
        order_id == IF given # <<>> THEN given ELSE key
    IN  IF amount_dec = None THEN Handled(store, Text(400, <<>>))
        ELSE Handled(StorePut(store, key,
                              OrderRecord(order_id, amount_dec, Some(description), "created",
                                          Some(DefaultShp), None)),
                     Redirect(<<"/">>))

\* POST /create-order.  The 400 body is "Некорректная сумма", transliterated.
create_order(store, form) ==
    LET amount == Strip(DictGetOr(form, K_amount, <<"0">>))
        description == Strip(DictGetOr(form, K_description, DefaultDescription))
        given == DictGetOr(form, K_order_id, <<>>)
        order_id == IF given # <<>> THEN given ELSE IntStr(Cardinality(DOMAIN store) + 1000)
        amount_dec == DecimalOfStr(amount)
    IN  IF amount_dec = None
        THEN Handled(store, Text(400, <<"N", "e", "k", "o", "r", "r", "e", "k", "t", "n", "a", "y", "a", " ", "s", "u", "m", "m", "a">>))
        ELSE Handled(StorePut(store, order_id,
                              OrderRecord(order_id, amount_dec, Some(description), "created",
                                          Some(DefaultShp), None)),
                     Redirect(<<"/">>))

MutCreatePaymentMarksFirst(cfg, store, form) ==
    LET order_id == DictGetOr(form, K_order_id, <<>>)
    IN  IF order_id = <<>> THEN Handled(store, Text(400, <<>>))
        ELSE IF ~OrderFound(store, order_id) THEN Handled(store, Text(404, <<>>))
        ELSE LET order == store[order_id]
                 marked == _update_order_status(store, order_id, "pending", None)
             IN  IF order.amount = None
                 THEN Handled(marked, Response(500, "fail.html", <<>>, <<>>, None))
                 ELSE LET error == _validate_order_parameters(
                                       order_id, order.amount[1],
                                       IF order.description = None THEN <<>>
                                       ELSE order.description[1])
                      IN  IF error # None THEN Handled(marked, Text(400, error[1]))
                          ELSE Handled(marked,
                                       Redirect(build_payment_url(
                                           cfg.ROBOKASSA_MERCHANT_LOGIN, cfg.ROBOKASSA_PASSWORD1,
                                           IntStr(order.amount[1]), order_id, order.description,
                                           IF order.shp = None THEN <<>> ELSE order.shp[1],
                                           cfg.ROBOKASSA_TEST_MODE, None)))

\* POST /create-payment.  Decimal(None) raises a TypeError that the handler
\* does not catch: the 500 error page is rendered (its message is
\* "Внутренняя ошибка сервера", transliterated).
create_payment(cfg, store, form) ==
    LET order_id == DictGetOr(form, K_order_id, <<>>)
    IN  IF order_id = <<>> THEN Handled(store, Text(400, <<"o", "r", "d", "e", "r", "_", "i", "d", " ", "r", "e", "q", "u", "i", "r", "e", "d">>))
        ELSE IF ~OrderFound(store, order_id) THEN Handled(store, Text(404, <<"O", "r", "d", "e", "r", " ", "n", "o", "t", " ", "f", "o", "u", "n", "d">>))
        ELSE LET order == store[order_id]
                 amount == order.amount
                 description == order.description
                 shp == IF order.shp = None THEN <<>> ELSE order.shp[1]
             IN  IF amount = None
                 THEN Handled(store, Response(500, "fail.html", <<"V", "n", "u", "t", "r", "e", "n", "n", "y", "a", "y", "a", " ", "o", "s", "h", "i", "b", "k", "a", " ", "s", "e", "r", "v", "e", "r", "a">>,
                                              <<>>, None))
                 ELSE LET error == _validate_order_parameters(
                                       order_id, amount[1],
                                       IF description = None THEN <<>> ELSE description[1])
                      IN  IF error # None THEN Handled(store, Text(400, error[1]))
                          ELSE Handled(
                                   _update_order_status(store, order_id, "pending", None),
                                   Redirect(build_payment_url(
                                       cfg.ROBOKASSA_MERCHANT_LOGIN, cfg.ROBOKASSA_PASSWORD1,
                                       IntStr(amount[1]), order_id, description, shp,
                                       cfg.ROBOKASSA_TEST_MODE, None)))

\* The signature check of payment_success: expected == signature.upper()
payment_success_valid(cfg, args) ==
    LET out_sum == DictGetOr(args, K_OutSum, <<>>)
        inv_id == DictGetOr(args, K_InvId, <<>>)
        signature == DictGetOr(args, K_SignatureValue, <<>>)
        shp == ShpOfParams(args)
        base == cfg.ROBOKASSA_MERCHANT_LOGIN \o <<":">> \o out_sum \o <<":">> \o inv_id
                    \o <<":">> \o cfg.ROBOKASSA_PASSWORD1
        shp_part == _format_shp_part(shp)
        expected == _md5_upper(IF shp_part # <<>> THEN base \o <<":">> \o shp_part ELSE base)
    IN  expected = StrUpper(signature)

MutPaymentSuccessFailsUnknown(cfg, store, args) ==
    LET inv_id == DictGetOr(args, K_InvId, <<>>)
    IN  IF ~payment_success_valid(cfg, args)
        THEN Handled(store, Response(400, "fail.html", <<>>, inv_id, None))
        ELSE IF ~OrderFound(store, inv_id)
        THEN Handled(store, Response(404, "fail.html", <<>>, inv_id, None))
        ELSE Handled(store, Response(200, "success.html", <<>>, inv_id, Some(store[inv_id])))

MutPaymentSuccessMarksPaid(cfg, store, args) ==
    LET inv_id == DictGetOr(args, K_InvId, <<>>)
    IN  IF ~payment_success_valid(cfg, args)
        THEN Handled(store, Response(400, "fail.html", <<>>, inv_id, None))
        ELSE Handled(_update_order_status(store, inv_id, "paid", None),
                     Response(200, "success.html", <<>>, inv_id, None))

\* GET /payment/success
payment_success(cfg, store, args) ==
    LET out_sum == DictGetOr(args, K_OutSum, <<>>)
        inv_id == DictGetOr(args, K_InvId, <<>>)
    IN  IF ~payment_success_valid(cfg, args)
        THEN Handled(store, Response(400, "fail.html", <<"I", "n", "v", "a", "l", "i", "d", " ", "s", "i", "g", "n", "a", "t", "u", "r", "e">>, inv_id, None))
        ELSE LET order == IF OrderFound(store, inv_id) THEN store[inv_id]
                          ELSE OrderRecord(inv_id, Some(out_sum), None, "unknown", None, None)
             IN  Handled(store, Response(200, "success.html", <<>>, inv_id, Some(order)))

\* GET /payment/fail.  The message is "Платёж отменён или не прошёл", transliterated.
payment_fail(store, args) ==
    Handled(store, Response(200, "fail.html", <<"P", "l", "a", "t", "e", "z", "h", " ", "o", "t", "m", "e", "n", "e", "n", " ", "i", "l", "i", " ", "n", "e", " ", "p", "r", "o", "s", "h", "e", "l">>,
                            DictGetOr(args, K_InvId, <<>>), None))

MutPaymentResultUpdatesFirst(cfg, store, form) ==
    LET out_sum == DictGetOr(form, K_OutSum, <<>>)
        inv_id == DictGetOr(form, K_InvId, <<>>)
        updated == _update_order_status(store, inv_id, "paid",
                                        Some(<< <<K_OutSum, out_sum>>, <<K_shp, ShpOfParams(form)>> >>))
    IN  IF inv_id = <<>> THEN Handled(store, Text(400, <<>>))
        ELSE IF ~verify_signature_from_result(out_sum, inv_id,
                                              DictGetOr(form, K_SignatureValue, <<>>),
                                              cfg.ROBOKASSA_PASSWORD2, ShpOfParams(form))
             THEN Handled(updated, Text(400, <<>>))
             ELSE Handled(updated, Text(200, <<"O", "K">> \o inv_id))

MutPaymentResultRedirectCheck(cfg, store, form) ==
    LET out_sum == DictGetOr(form, K_OutSum, <<>>)
        inv_id == DictGetOr(form, K_InvId, <<>>)
    IN  IF inv_id = <<>> THEN Handled(store, Text(400, <<>>))
        ELSE IF ~payment_success_valid(cfg, form) THEN Handled(store, Text(400, <<>>))
        ELSE Handled(_update_order_status(store, inv_id, "paid",
                                          Some(<< <<K_OutSum, out_sum>>, <<K_shp, ShpOfParams(form)>> >>)),
                     Text(200, <<"O", "K">> \o inv_id))

MutPaymentResultNoCheck(cfg, store, form) ==
    LET out_sum == DictGetOr(form, K_OutSum, <<>>)
        inv_id == DictGetOr(form, K_InvId, <<>>)
    IN  IF inv_id = <<>> THEN Handled(store, Text(400, <<>>))
        ELSE Handled(_update_order_status(store, inv_id, "paid",
                                          Some(<< <<K_OutSum, out_sum>>, <<K_shp, ShpOfParams(form)>> >>)),
                     Text(200, <<"O", "K">> \o inv_id))

\* POST /payment/result
payment_result(cfg, store, form) ==
    LET out_sum == DictGetOr(form, K_OutSum, <<>>)
        inv_id == DictGetOr(form, K_InvId, <<>>)
        signature == DictGetOr(form, K_SignatureValue, <<>>)
        shp == ShpOfParams(form)
    IN  IF inv_id = <<>> THEN Handled(store, Text(400, <<"I", "n", "v", "I", "d", " ", "m", "i", "s", "s", "i", "n", "g">>))
        ELSE IF ~verify_signature_from_result(out_sum, inv_id, signature,
                                              cfg.ROBOKASSA_PASSWORD2, shp)
             THEN Handled(store, Text(400, <<"I", "n", "v", "a", "l", "i", "d", " ", "s", "i", "g", "n", "a", "t", "u", "r", "e">>))
             ELSE Handled(_update_order_status(store, inv_id, "paid",
                                               Some(<< <<K_OutSum, out_sum>>, <<K_shp, shp>> >>)),
                          Text(200, <<"O", "K">> \o inv_id))

---------------------------------------------------------------------------
(* The gateway's side of the protocol, as the docstrings of                *)
(* robokassa_client.py document it:                                        *)
(*   MerchantLogin:OutSum:InvId:Password1[:Shp_key=value:...]              *)
(*   OutSum:InvId:Password2[:Shp_key=value:...]                            *)
(* with the Shp parameters in alphabetical order of their keys.            *)

\* The items of a dict by ascending key: the i-th is the one with i-1 smaller keys.
AscendingItems(shp) ==
    [i \in 1..Len(shp) |->
        CHOOSE item \in DictItems(shp) :
            Cardinality({other \in DictItems(shp) : StrLess(other[1], item[1])}) = i - 1]

\* The fixed fields, then the secret, then every extension pair as
\* Shp_key=value, all joined by colons.
CanonicalString(fields, secret, shp) ==
    Join(<<":">>,
         fields \o <<secret>>
             \o [i \in 1..Len(shp) |->
                    <<"S", "h", "p", "_">> \o AscendingItems(shp)[i][1] \o <<"=">>
                        \o AscendingItems(shp)[i][2]])

\* The upper-case digest the gateway sends with a callback.
GatewayResultSignature(cfg, out_sum, inv_id, shp) ==
    StrUpper(md5_hexdigest(CanonicalString(<<out_sum, inv_id>>, cfg.ROBOKASSA_PASSWORD2, shp)))

\* The upper-case digest of the redirect formula.
GatewayRedirectSignature(cfg, out_sum, inv_id, shp) ==
    StrUpper(md5_hexdigest(CanonicalString(<<cfg.ROBOKASSA_MERCHANT_LOGIN, out_sum, inv_id>>,
                                           cfg.ROBOKASSA_PASSWORD1, shp)))

\* A field of a request that may be left out.
OptField(name, value) == IF value = None THEN <<>> ELSE << <<name, value[1]>> >>

\* The parameters of a redirect-return or callback request.
GatewayParams(out_sum, inv_id, signature, shp) ==
    << <<K_OutSum, out_sum>> >> \o OptField(K_InvId, inv_id)
        \o OptField(K_SignatureValue, signature)
        \o [i \in 1..Len(shp) |-> <<ShpPrefix \o shp[i][1], shp[i][2]>>]

---------------------------------------------------------------------------
(* The order lifecycle: requests arrive one at a time, in any order        *)

\* The order id requests name; create_order assigns 1000, 1001, ... itself.
IdPool == { <<"1", "0", "0", "1">> }

\* create_order assigns an id itself only while the store holds fewer records.
MaxOrders == 2

\* The <<amount, description>> pairs submitted to create_order: a valid pair,
\* a zero amount, a blank description, and an amount that is no number.
OrderInputs ==
    { << <<"5">>, <<"d">> >>, << <<"0">>, <<"d">> >>, << <<"5">>, <<" ">> >>,
      << <<"x">>, <<"d">> >> }

OutSumInputs == { <<"5">> }

\* The gateway returns the Shp_ parameters create_payment sent.
ShpInputs == { DefaultShp }

\* The environments the process is started in.
LifecycleEnvs == { EmptyEnv }

\* create_order forms: with an order_id of the pool, or without one (the id
\* is then len(ORDERS) + 1000) while the store holds fewer than MaxOrders records.
CreateOrderForms(store) ==
    { << <<K_amount, in[1]>>, <<K_description, in[2]>> >> \o OptField(K_order_id, id) :
        in \in OrderInputs,
        id \in { Some(i) : i \in IdPool }
                 \cup (IF Cardinality(DOMAIN store) < MaxOrders THEN {None} ELSE {}) }

CreatePaymentForms == { OptField(K_order_id, id) : id \in { Some(i) : i \in IdPool } \cup {None} }

\* The signatures a request may carry for its other parameters: the callback
\* digest, the redirect digest, or none.
SignatureInputs(cfg, out_sum, inv_id, shp) ==
    { Some(GatewayResultSignature(cfg, out_sum, inv_id, shp)),
      Some(GatewayRedirectSignature(cfg, out_sum, inv_id, shp)),
      None }

\* InvId: an order id of the pool, the empty string, or no such parameter.
InvIdInputs == { Some(i) : i \in IdPool } \cup {Some(<<>>), None}

OptValue(value) == IF value = None THEN <<>> ELSE value[1]

\* Whether a callback form carries the digest of OutSum:InvId:password2[:Shp...]
\* for its own parameters (in either letter case).
CorrectlySigned(cfg, form) ==
    StrUpper(DictGetOr(form, K_SignatureValue, <<>>))
        = GatewayResultSignature(cfg, DictGetOr(form, K_OutSum, <<>>),
                                 DictGetOr(form, K_InvId, <<>>), ShpOfParams(form))

LifecycleConfigs == { Config(env) : env \in LifecycleEnvs }

\* The redirect-return and callback requests that can arrive under each
\* configuration: the parameters, and whether they are correctly signed as a
\* callback.
GatewayRequests ==
    [cfg \in LifecycleConfigs |->
        UNION { { [params |-> GatewayParams(t[1], t[2], sig, t[3]),
                   signed |-> CorrectlySigned(cfg, GatewayParams(t[1], t[2], sig, t[3]))] :
                      sig \in SignatureInputs(cfg, t[1], OptValue(t[2]), t[3]) } :
                t \in OutSumInputs \X InvIdInputs \X ShpInputs }]

Idle == <<>>

\* The state after app.py is imported: the configuration is loaded and the
\* order mapping is empty.
Init ==
    /\ config \in LifecycleConfigs
    /\ ORDERS = EmptyStore
    /\ resp = Text(0, <<>>)
    /\ op = "start"
    /\ lastForm = <<>>
    /\ received = {}
    /\ sigIn = Idle
    /\ sigOut = Idle
    /\ threads = Idle
    /\ before = Idle
    /\ generation = 0

CreateOrder ==
    \E form \in CreateOrderForms(ORDERS) :
        LET r == create_order(ORDERS, form)
        IN  /\ ORDERS' = r.store
            /\ resp' = r.resp
            /\ op' = "create_order"
            /\ lastForm' = form
            /\ UNCHANGED <<config, received, sigIn, sigOut, concVars>>

CreatePayment ==
    \E form \in CreatePaymentForms :
        LET r == create_payment(config, ORDERS, form)
        IN  /\ ORDERS' = r.store
            /\ resp' = r.resp
            /\ op' = "create_payment"
            /\ lastForm' = form
            /\ UNCHANGED <<config, received, sigIn, sigOut, concVars>>

PaymentSuccess ==
    \E rq \in GatewayRequests[config] :
        LET r == payment_success(config, ORDERS, rq.params)
        IN  /\ ORDERS' = r.store
            /\ resp' = r.resp
            /\ op' = "payment_success"
            /\ lastForm' = rq.params
            /\ UNCHANGED <<config, received, sigIn, sigOut, concVars>>

PaymentFail ==
    \E id \in InvIdInputs :
        LET r == payment_fail(ORDERS, OptField(K_InvId, id))
        IN  /\ ORDERS' = r.store
            /\ resp' = r.resp
            /\ op' = "payment_fail"
            /\ lastForm' = OptField(K_InvId, id)
            /\ UNCHANGED <<config, received, sigIn, sigOut, concVars>>

PaymentResult ==
    \E rq \in GatewayRequests[config] :
        LET r == payment_result(config, ORDERS, rq.params)
        IN  /\ ORDERS' = r.store
            /\ resp' = r.resp
            /\ op' = "payment_result"
            /\ lastForm' = rq.params
            /\ received' = IF rq.signed /\ DictHas(rq.params, K_InvId)
                           THEN received \cup {DictGet(rq.params, K_InvId)} ELSE received
            /\ UNCHANGED <<config, sigIn, sigOut, concVars>>

Next ==
    \/ CreateOrder
    \/ CreatePayment
    \/ PaymentSuccess
    \/ PaymentFail
    \/ PaymentResult

Spec == Init /\ [][Next]_vars

---------------------------------------------------------------------------
(* The signature engine on its own: inputs are drawn at the start, and one *)
(* operation of robokassa_client.py, or one of the two verification paths  *)
(* of app.py, is applied to them; a URL that was built is then fed back to *)
(* the redirect-return check.                                              *)

\* The largest number of Shp parameters of a request.
MaxShp == 2

SigEnv(password1, password2, test_mode) ==
    [ROBOKASSA_MERCHANT_LOGIN |-> Some(<<"m">>), ROBOKASSA_PASSWORD1 |-> Some(password1),
     ROBOKASSA_PASSWORD2 |-> Some(password2), ROBOKASSA_TEST_MODE |-> Some(test_mode)]

\* The environments the process is started in: distinct secrets, equal
\* secrets, a second secret that contains a colon, and no second secret.
SigEnvs ==
    { SigEnv(<<"p">>, <<"q">>, <<"1">>),
      SigEnv(<<"p">>, <<"p">>, <<"0">>),
      SigEnv(<<"p">>, <<"7", ":", "p">>, <<"1">>),
      [SigEnv(<<"p">>, <<"q">>, <<"1">>) EXCEPT !.ROBOKASSA_PASSWORD2 = None] }

SigConfigs == { Config(env) : env \in SigEnvs }

SigOutSums == { <<"5">>, <<"m">> }

SigInvIds == { <<"7">>, <<"5">> }

\* The amount and order id of a payment: an ordinary pair, and an amount that
\* reads like the merchant id with an order id that reads like an amount.
SigOrders == { <<<<"5">>, <<"7">> >>, <<<<"m">>, <<"5">> >> }

\* Items of shp: lower- and upper-case keys, an equals sign in a key or in a
\* value, and a value that contains a colon.
SigShpItems ==
    { << <<"a">>, <<"b", "=", "v">> >>, << <<"a", "=", "b">>, <<"v">> >>,
      << <<"B">>, <<"v">> >>,
      << <<"B">>, <<"v", ":", "S", "h", "p", "_", "a", "=", "b", "=", "v">> >> }

\* Every dict of at most MaxShp of these items, in every insertion order.
SigShps ==
    UNION { { d \in [1..n -> SigShpItems] :
                \A i, j \in 1..n : i # j => d[i][1] # d[j][1] } : n \in 0..MaxShp }

SigDescriptions == { None, Some(<<"d", " ", "x">>) }

\* extra_params of build_payment_url: none, a gateway option, and values that
\* replace or extend the parameters the signature covers.
SigExtraParams ==
    { None,
      Some(<< <<<<"C", "u", "l", "t", "u", "r", "e">>, <<"r", "u">> >> >>),
      Some(<< <<K_MerchantLogin, <<"x">> >> >>),
      Some(<< <<K_SignatureValue, <<"0", "0">> >> >>),
      Some(<< <<K_OutSum, <<"9">> >> >>),
      Some(<< <<ShpPrefix \o <<"z">>, <<"1">> >> >>) }

\* s with its i-th character replaced by c
Replace(s, i, c) == [j \in 1..Len(s) |-> IF j = i THEN c ELSE s[j]]

HexChars ==
    { HexDigitsUpper[n] : n \in 1..Len(HexDigitsUpper) }
        \cup { HexDigitsLower[n] : n \in 1..Len(HexDigitsLower) }

\* The signatures tried against the inputs in: the digest of each formula in
\* upper and lower case, each with its first character replaced, and the
\* redirect digests of the other amounts and order ids.
SigCandidates(cfg, in) ==
    LET result == GatewayResultSignature(cfg, in.out_sum, in.inv_id, in.shp)
        return == GatewayRedirectSignature(cfg, in.out_sum, in.inv_id, in.shp)
    IN  { result, StrLower(result), return, StrLower(return), <<>> }
            \cup { Replace(d, 1, c) : d \in {result, return}, c \in {"0", "4", "a"} }
            \cup { Replace(d, 2, LowerChar[d[2]]) : d \in {result, return} }
            \cup { GatewayRedirectSignature(cfg, o, id, shp) :
                       o \in SigOutSums, id \in SigInvIds, shp \in {<<>>, in.shp} }

\* Whether POST /payment/result accepts the inputs in with this signature.
AcceptedAsResult(cfg, in, candidate) ==
    payment_result(cfg, EmptyStore,
                   GatewayParams(in.out_sum, Some(in.inv_id), Some(candidate), in.shp)).resp.status
        = 200

\* Whether the signature check of GET /payment/success accepts them.
AcceptedAsReturn(cfg, in, candidate) ==
    payment_success_valid(cfg, GatewayParams(in.out_sum, Some(in.inv_id), Some(candidate), in.shp))

SigResult(operation, text, ok, candidate, extra) ==
    [op |-> operation, text |-> text, ok |-> ok, candidate |-> candidate, extra |-> extra]

SigInit ==
    /\ \E env \in SigEnvs, order \in SigOrders, shp \in SigShps :
           /\ config = Config(env)
           /\ sigIn = [env |-> env, out_sum |-> order[1], inv_id |-> order[2], shp |-> shp]
    /\ sigOut = SigResult("none", <<>>, FALSE, <<>>, None)
    /\ ORDERS = EmptyStore
    /\ resp = Text(0, <<>>)
    /\ op = "start"
    /\ lastForm = <<>>
    /\ received = {}
    /\ threads = Idle
    /\ before = Idle
    /\ generation = 0

\* _format_shp_part(shp)
SigFormat ==
    /\ sigOut.op = "none"
    /\ sigOut' = SigResult("format", _format_shp_part(sigIn.shp), TRUE, <<>>, None)
    /\ UNCHANGED <<config, ORDERS, resp, op, lastForm, received, sigIn, concVars>>

\* The string build_payment_url signs
SigSignRedirect ==
    /\ sigOut.op = "none"
    /\ sigOut' = SigResult("sign_redirect",
                           build_payment_url_base(config.ROBOKASSA_MERCHANT_LOGIN,
                                                  config.ROBOKASSA_PASSWORD1,
                                                  sigIn.out_sum, sigIn.inv_id, sigIn.shp),
                           TRUE, <<>>, None)
    /\ UNCHANGED <<config, ORDERS, resp, op, lastForm, received, sigIn, concVars>>

\* The string verify_signature_from_result hashes
SigSignResult ==
    /\ sigOut.op = "none"
    /\ sigOut' = SigResult("sign_result",
                           verify_signature_from_result_base(sigIn.out_sum, sigIn.inv_id,
                                                             config.ROBOKASSA_PASSWORD2,
                                                             sigIn.shp),
                           TRUE, <<>>, None)
    /\ UNCHANGED <<config, ORDERS, resp, op, lastForm, received, sigIn, concVars>>

\* A callback with a candidate signature: payment_result, which asks
\* verify_signature_from_result
SigVerifyResult ==
    \E candidate \in SigCandidates(config, sigIn) :
        /\ sigOut.op = "none"
        /\ sigOut' = SigResult("verify_result", <<>>,
                               AcceptedAsResult(config, sigIn, candidate), candidate, None)
        /\ UNCHANGED <<config, ORDERS, resp, op, lastForm, received, sigIn, concVars>>

\* The signature check of payment_success on a candidate signature
SigVerifyReturn ==
    \E candidate \in SigCandidates(config, sigIn) :
        /\ sigOut.op = "none"
        /\ sigOut' = SigResult("verify_return", <<>>,
                               AcceptedAsReturn(config, sigIn, candidate), candidate, None)
        /\ UNCHANGED <<config, ORDERS, resp, op, lastForm, received, sigIn, concVars>>

\* build_payment_url
SigBuild ==
    \E description \in SigDescriptions, extra_params \in SigExtraParams :
        /\ sigOut.op = "none"
        /\ sigOut' = SigResult("build",
                               build_payment_url(config.ROBOKASSA_MERCHANT_LOGIN,
                                                 config.ROBOKASSA_PASSWORD1,
                                                 sigIn.out_sum, sigIn.inv_id, description,
                                                 sigIn.shp, config.ROBOKASSA_TEST_MODE,
                                                 extra_params),
                               TRUE, <<>>, extra_params)
        /\ UNCHANGED <<config, ORDERS, resp, op, lastForm, received, sigIn, concVars>>

\* The redirect-return check on the query parameters of the URL that was built
SigReturn ==
    /\ sigOut.op = "build"
    /\ sigOut' = SigResult("round_trip", sigOut.text,
                           payment_success_valid(config, RequestArgsOfUrl(sigOut.text)),
                           <<>>, sigOut.extra)
    /\ UNCHANGED <<config, ORDERS, resp, op, lastForm, received, sigIn, concVars>>

SigNext ==
    \/ SigFormat
    \/ SigSignRedirect
    \/ SigSignResult
    \/ SigVerifyResult
    \/ SigVerifyReturn
    \/ SigBuild
    \/ SigReturn

SpecSig == SigInit /\ [][SigNext]_vars

---------------------------------------------------------------------------
(* Concurrent callbacks: the development server handles each request in    *)
(* its own thread, so several payment_result calls for one order id run    *)
(* at once.  Every access to ORDERS and to an order dict is one step; a    *)
(* thread keeps the dict it read from ORDERS, not a copy of it.            *)

\* The number of callbacks in flight
MaxThreads == 2

Threads == 1..MaxThreads

\* The order id the callbacks name
ConcOrderId == <<"1", "0", "0", "1">>

\* ORDERS when the callbacks arrive: without the order, with the order as
\* create_order leaves it, and as create_payment then leaves it.
ConcStores(cfg) ==
    LET created == create_order(EmptyStore,
                                << <<K_amount, <<"5">> >>, <<K_description, <<"d">> >>,
                                   <<K_order_id, ConcOrderId>> >>).store
        pending == create_payment(cfg, created, << <<K_order_id, ConcOrderId>> >>).store
    IN  { EmptyStore, created, pending }

ConcOutSums == { <<"5">>, <<"6">> }

\* The callback forms: correctly signed ones, and one that carries the
\* redirect digest instead.
ConcForms(cfg) ==
    { GatewayParams(o, Some(ConcOrderId),
                    Some(GatewayResultSignature(cfg, o, ConcOrderId, DefaultShp)), DefaultShp) :
          o \in ConcOutSums }
        \cup { GatewayParams(<<"5">>, Some(ConcOrderId),
                             Some(GatewayRedirectSignature(cfg, <<"5">>, ConcOrderId, DefaultShp)),
                             DefaultShp) }

\* A request thread: where it is in payment_result, its form, the dict that
\* ORDERS.get gave it (None, or the generation of that dict), its response.
Thread(pc, form, order, response) ==
    [pc |-> pc, form |-> form, order |-> order, resp |-> response]

ConcInit ==
    /\ config \in LifecycleConfigs
    /\ ORDERS \in ConcStores(config)
    /\ before = ORDERS
    /\ generation = 0
    /\ threads \in [Threads -> { Thread("received", form, None, Text(0, <<>>)) :
                                     form \in ConcForms(config) }]
    /\ resp = Text(0, <<>>)
    /\ op = "start"
    /\ lastForm = <<>>
    /\ received = {}
    /\ sigIn = Idle
    /\ sigOut = Idle

\* payment_result up to the signature check
ConcVerify(t) ==
    LET form == threads[t].form
        inv_id == DictGetOr(form, K_InvId, <<>>)
    IN  /\ threads[t].pc = "received"
        /\ threads' =
               [threads EXCEPT ![t] =
                   IF inv_id = <<>>
                   THEN Thread("done", form, None, Text(400, <<"I", "n", "v", "I", "d", " ", "m", "i", "s", "s", "i", "n", "g">>))
                   ELSE IF ~verify_signature_from_result(
                                DictGetOr(form, K_OutSum, <<>>), inv_id,
                                DictGetOr(form, K_SignatureValue, <<>>),
                                config.ROBOKASSA_PASSWORD2, ShpOfParams(form))
                   THEN Thread("done", form, None, Text(400, <<"I", "n", "v", "a", "l", "i", "d", " ", "s", "i", "g", "n", "a", "t", "u", "r", "e">>))
                   ELSE Thread("read", form, None, Text(0, <<>>))]
        /\ UNCHANGED <<config, ORDERS, resp, op, lastForm, received, sigIn, sigOut, before,
                       generation>>

\* _update_order_status: order = ORDERS.get(str(order_id))
ConcRead(t) ==
    LET inv_id == DictGetOr(threads[t].form, K_InvId, <<>>)
    IN  /\ threads[t].pc = "read"
        /\ threads' =
               [threads EXCEPT ![t] =
                   IF OrderFound(ORDERS, inv_id)
                   THEN Thread("status", @.form, Some(generation), @.resp)
                   ELSE Thread("create", @.form, None, @.resp)]
        /\ UNCHANGED <<config, ORDERS, resp, op, lastForm, received, sigIn, sigOut, before,
                       generation>>

\* _update_order_status: ORDERS[str(order_id)] = {...}; return; then the
\* acknowledgment of payment_result
ConcCreate(t) ==
    LET inv_id == DictGetOr(threads[t].form, K_InvId, <<>>)
    IN  /\ threads[t].pc = "create"
        /\ ORDERS' = StorePut(ORDERS, inv_id, OrderRecord(inv_id, None, None, "paid", None, None))
        /\ generation' = generation + 1
        /\ threads' = [threads EXCEPT ![t] =
                          Thread("done", @.form, None, Text(200, <<"O", "K">> \o inv_id))]
        /\ UNCHANGED <<config, resp, op, lastForm, received, sigIn, sigOut, before>>

\* _update_order_status: order["status"] = status, on the dict that was read:
\* it shows in ORDERS only if that dict is still the one stored.
ConcStatus(t) ==
    LET inv_id == DictGetOr(threads[t].form, K_InvId, <<>>)
    IN  /\ threads[t].pc = "status"
        /\ ORDERS' = IF threads[t].order = Some(generation)
                     THEN [ORDERS EXCEPT ![inv_id].status = "paid"]
                     ELSE ORDERS
        /\ threads' = [threads EXCEPT ![t].pc = "record"]
        /\ UNCHANGED <<config, resp, op, lastForm, received, sigIn, sigOut, before, generation>>

\* _update_order_status: order.setdefault("robokassa", {}).update(robokassa_data);
\* then the acknowledgment of payment_result
ConcRecord(t) ==
    LET form == threads[t].form
        inv_id == DictGetOr(form, K_InvId, <<>>)
        robokassa_data == << <<K_OutSum, DictGetOr(form, K_OutSum, <<>>)>>,
                             <<K_shp, ShpOfParams(form)>> >>
    IN  /\ threads[t].pc = "record"
        /\ ORDERS' = IF threads[t].order = Some(generation)
                     THEN [ORDERS EXCEPT
                              ![inv_id].robokassa =
                                  Some(DictUpdate(IF @ = None THEN <<>> ELSE @[1], robokassa_data))]
                     ELSE ORDERS
        /\ threads' = [threads EXCEPT ![t] =
                          Thread("done", @.form, @.order, Text(200, <<"O", "K">> \o inv_id))]
        /\ UNCHANGED <<config, resp, op, lastForm, received, sigIn, sigOut, before, generation>>

ConcNext ==
    \E t \in Threads :
        \/ ConcVerify(t)
        \/ ConcRead(t)
        \/ ConcCreate(t)
        \/ ConcStatus(t)
        \/ ConcRecord(t)

SpecConc == ConcInit /\ [][ConcNext]_vars

---------------------------------------------------------------------------
(* Properties of the order lifecycle                                       *)

\* C1: an order has status paid only if a callback for its id was received
\* whose signature is the digest of OutSum:InvId:password2[:Shp_k=v...];
\* no other request, and no rejected callback, makes an order paid.
PaidOnlyAfterSignedCallback ==
    \A id \in DOMAIN ORDERS : ORDERS[id].status = "paid" => id \in received

\* A callback was accepted and its order is paid.
PaidAfterCallbackReached ==
    /\ op = "payment_result"
    /\ resp.status = 200
    /\ \E id \in DOMAIN ORDERS : ORDERS[id].status = "paid" /\ resp.body = <<"O", "K">> \o id

\* C2: the redirect-return leaves the whole order store unchanged, for a
\* valid or an invalid signature and a known or an unknown order id.
RedirectReturnLeavesStore == [][op' = "payment_success" => ORDERS' = ORDERS]_vars

\* A redirect-return with a valid signature was answered for an order of the store.
RedirectReturnAnswered ==
    /\ op = "payment_success"
    /\ resp.status = 200
    /\ resp.order_id \in DOMAIN ORDERS
    /\ ORDERS[resp.order_id].status = "pending"

\* C3: status only moves forward along created -> pending -> paid: a paid
\* order is never pending or created afterwards, a pending order is never
\* created afterwards.
StatusOnlyMovesForward ==
    [][\A id \in DOMAIN ORDERS :
          /\ ORDERS[id].status = "paid" =>
                 id \in DOMAIN ORDERS' /\ ORDERS'[id].status = "paid"
          /\ ORDERS[id].status = "pending" =>
                 id \in DOMAIN ORDERS' /\ ORDERS'[id].status \in {"pending", "paid"}]_vars

\* C4: a validly signed callback delivered twice in succession leaves the
\* store as the first delivery left it, and both deliveries are acknowledged.
CallbackIdempotent ==
    [][(/\ op = "payment_result" /\ resp.status = 200
        /\ op' = "payment_result" /\ lastForm' = lastForm) =>
          (ORDERS' = ORDERS /\ resp' = resp)]_vars

\* C11: a callback with a missing or empty InvId, or whose signature is not
\* the digest of its parameters, is answered 400 as plain text and leaves the
\* store unchanged; any other callback is answered 200 with OK and the InvId.
CallbackOutcomes ==
    [][op' = "payment_result" =>
          LET inv_id == DictGetOr(lastForm', K_InvId, <<>>)
          IN  IF inv_id = <<>> \/ ~CorrectlySigned(config, lastForm')
              THEN resp'.status = 400 /\ resp'.kind = "text" /\ ORDERS' = ORDERS
              ELSE resp' = Text(200, <<"O", "K">> \o inv_id)]_vars

\* A callback naming an order of the store was rejected for its signature.
CallbackRejectedReached ==
    /\ op = "payment_result"
    /\ resp.status = 400
    /\ DictGetOr(lastForm, K_InvId, <<>>) \in DOMAIN ORDERS
    /\ ORDERS[DictGetOr(lastForm, K_InvId, <<>>)].status = "pending"

\* C12: a correctly signed callback for an order id that is not in the store
\* is acknowledged and adds the minimal record for that id (status paid, no
\* amount, no description); a callback for an unknown id whose signature
\* does not verify adds no record.
UnknownOrderCallback ==
    [][LET inv_id == DictGetOr(lastForm', K_InvId, <<>>)
       IN  (op' = "payment_result" /\ inv_id # <<>> /\ inv_id \notin DOMAIN ORDERS) =>
               IF CorrectlySigned(config, lastForm')
               THEN /\ resp' = Text(200, <<"O", "K">> \o inv_id)
                    /\ ORDERS' = StorePut(ORDERS, inv_id,
                                          OrderRecord(inv_id, None, None, "paid", None, None))
               ELSE ORDERS' = ORDERS /\ resp'.status = 400]_vars

\* A callback for an unknown order left the minimal record, beside another order.
MinimalRecordReached ==
    /\ op = "payment_result"
    /\ resp.status = 200
    /\ Cardinality(DOMAIN ORDERS) = 2
    /\ LET inv_id == DictGetOr(lastForm, K_InvId, <<>>)
       IN  ORDERS[inv_id] = OrderRecord(inv_id, None, None, "paid", None, None)

\* C13: every record that order creation puts in the store has a positive
\* amount and a non-empty description, and a creation request with a
\* non-positive amount or an empty description is answered 400 and leaves the
\* store as it was.
CreationValidated ==
    [][op' = "create_order" =>
          /\ \A id \in DOMAIN ORDERS' :
                 (id \notin DOMAIN ORDERS \/ ORDERS'[id] # ORDERS[id]) =>
                     /\ ORDERS'[id].amount # None /\ ORDERS'[id].amount[1] > 0
                     /\ ORDERS'[id].description \notin {None, Some(<<>>)}
          /\ LET amount == DecimalOfStr(Strip(DictGetOr(lastForm', K_amount, <<"0">>)))
                 description == Strip(DictGetOr(lastForm', K_description, DefaultDescription))
             IN  ((amount # None /\ amount[1] <= 0) \/ description = <<>>) =>
                     (resp'.status = 400 /\ ORDERS' = ORDERS)]_vars

\* C14: an order becomes pending only in a create_payment request that
\* answers with the redirect to the payment URL; create_payment without an
\* order id (400), for an unknown id (404) or for an order whose amount is not
\* positive or whose description is empty (400) gives no redirect and leaves
\* the store unchanged, as does any other refusal; a create_payment that
\* redirects leaves its order pending and changes nothing else.
PendingOnlyThroughPaymentUrl ==
    [][LET order_id == DictGetOr(lastForm', K_order_id, <<>>)
       IN  /\ \A id \in DOMAIN ORDERS' :
                  (/\ ORDERS'[id].status = "pending"
                   /\ (id \notin DOMAIN ORDERS \/ ORDERS[id].status # "pending"))
                      => (op' = "create_payment" /\ resp'.kind = "redirect" /\ order_id = id)
           /\ op' = "create_payment" =>
                  IF order_id = <<>> THEN resp'.status = 400 /\ ORDERS' = ORDERS
                  ELSE IF order_id \notin DOMAIN ORDERS
                  THEN resp'.status = 404 /\ ORDERS' = ORDERS
                  ELSE IF ORDERS[order_id].amount = None
                  THEN resp'.kind # "redirect" /\ ORDERS' = ORDERS
                  ELSE IF \/ ORDERS[order_id].amount[1] <= 0
                          \/ ORDERS[order_id].description \in {None, Some(<<>>)}
                  THEN resp'.status = 400 /\ resp'.kind # "redirect" /\ ORDERS' = ORDERS
                  ELSE /\ resp'.status = 302 /\ resp'.kind = "redirect"
                       /\ StartsWith(resp'.body, ROBOKASSA_GATEWAY)
                       /\ ORDERS' = [ORDERS EXCEPT ![order_id].status = "pending"]]_vars

\* create_payment redirected to the payment URL and its order is pending.
PaymentUrlIssuedReached ==
    /\ op = "create_payment"
    /\ resp.kind = "redirect"
    /\ ORDERS[DictGetOr(lastForm, K_order_id, <<>>)].status = "pending"

\* C16: a redirect-return whose signature is not the digest of
\* merchant_id:OutSum:InvId:password1[:Shp...] is answered 400 with the
\* failure page; one whose signature is that digest is answered with the
\* confirmation page, rendered from the stored order or, when the order id
\* is unknown, from a placeholder with status unknown.
RedirectReturnOutcomes ==
    [][op' = "payment_success" =>
          LET out_sum == DictGetOr(lastForm', K_OutSum, <<>>)
              inv_id == DictGetOr(lastForm', K_InvId, <<>>)
              signature == DictGetOr(lastForm', K_SignatureValue, <<>>)
          IN  IF StrUpper(signature)
                     # GatewayRedirectSignature(config, out_sum, inv_id, ShpOfParams(lastForm'))
              THEN resp'.status = 400 /\ resp'.kind = "fail.html" /\ resp'.order_id = inv_id
              ELSE /\ resp'.status = 200 /\ resp'.kind = "success.html"
                   /\ resp'.order_id = inv_id
                   /\ resp'.payment_data
                          = Some(IF inv_id \in DOMAIN ORDERS THEN ORDERS[inv_id]
                                 ELSE OrderRecord(inv_id, Some(out_sum), None, "unknown",
                                                  None, None))]_vars

\* The confirmation page was rendered from the placeholder, beside a stored order.
PlaceholderPageReached ==
    /\ op = "payment_success"
    /\ resp.status = 200
    /\ resp.order_id \notin DOMAIN ORDERS
    /\ resp.order_id # <<>>
    /\ ORDERS # EmptyStore
    /\ resp.payment_data[1].status = "unknown"

\* C18: a create_order request, with an explicit order_id or with the id
\* create_order assigns, leaves every order that was in the store there with
\* the same amount, description and status.
CreateOrderKeepsOrders ==
    [][op' = "create_order" =>
          \A id \in DOMAIN ORDERS :
              /\ id \in DOMAIN ORDERS'
              /\ ORDERS'[id].amount = ORDERS[id].amount
              /\ ORDERS'[id].description = ORDERS[id].description
              /\ ORDERS'[id].status = ORDERS[id].status]_vars

\* C20: every record is stored under the key that equals its id field, a
\* stored id keeps its record's id from one state to the next, and no request
\* removes an order id from the store.
RecordsKeyedByOwnId ==
    [][/\ \A id \in DOMAIN ORDERS' : ORDERS'[id].id = id
       /\ \A id \in DOMAIN ORDERS : id \in DOMAIN ORDERS' /\ ORDERS'[id].id = ORDERS[id].id]_vars

\* create_order stored a record under an explicit id beside another order.
TwoRecordsKeyedReached ==
    /\ op = "create_order"
    /\ resp.status = 302
    /\ DictGetOr(lastForm, K_order_id, <<>>) \in DOMAIN ORDERS
    /\ \E id \in DOMAIN ORDERS :
           id # DictGetOr(lastForm, K_order_id, <<>>) /\ ORDERS[id].id = id

---------------------------------------------------------------------------
(* Properties of concurrent callbacks                                      *)

\* The threads whose callback is correctly signed.
SignedThreads == { t \in Threads : CorrectlySigned(config, threads[t].form) }

\* C15: when two or more correctly signed callbacks for one order id have been
\* processed concurrently, the store is as one of them alone, processed on
\* the store they found, would have left it.
ConcurrentCallbacksAsOne ==
    (/\ \A t \in Threads : threads[t].pc = "done"
     /\ Cardinality(SignedThreads) >= 2)
        => ORDERS \in { payment_result(config, before, threads[t].form).store :
                            t \in SignedThreads }

---------------------------------------------------------------------------
(* Properties of the signature engine                                      *)

NoColon(s) == \A i \in 1..Len(s) : s[i] # ":"

\* The digests of the redirect formula for every amount, order id and
\* extension map, under each configuration.
RedirectSignatures ==
    [cfg \in SigConfigs |->
        { GatewayRedirectSignature(cfg, o, id, shp) :
              o \in SigOutSums, id \in SigInvIds, shp \in SigShps }]

\* The inputs a canonical string is compared with.
CanonicalInputs == [out_sum : SigOutSums, inv_id : SigInvIds, shp : SigShps]

\* Two inputs with the same amount, order id and extension map.
SameInput(a, b) ==
    a.out_sum = b.out_sum /\ a.inv_id = b.inv_id /\ DictItems(a.shp) = DictItems(b.shp)

\* The canonical strings and the digest of the input in differ from those of
\* every other input of the set.
DistinctFromOthers(others) ==
    \A other \in others :
        ~SameInput(other, sigIn) =>
            /\ sigOut.op = "sign_result" =>
                   /\ verify_signature_from_result_base(other.out_sum, other.inv_id,
                                                        config.ROBOKASSA_PASSWORD2, other.shp)
                          # sigOut.text
                   /\ ~AcceptedAsResult(config, other, _md5_upper(sigOut.text))
            /\ sigOut.op = "sign_redirect" =>
                   /\ build_payment_url_base(config.ROBOKASSA_MERCHANT_LOGIN,
                                             config.ROBOKASSA_PASSWORD1,
                                             other.out_sum, other.inv_id, other.shp)
                          # sigOut.text
                   /\ ~AcceptedAsReturn(config, other, _md5_upper(sigOut.text))

\* C19 as stated: two inputs that differ in the amount, the order id or the
\* extension map never have the same canonical string under the same
\* secret, so the digest of one is not accepted for the other.
CanonicalStringUnambiguous ==
    sigOut.op \in {"sign_result", "sign_redirect"} => DistinctFromOthers(CanonicalInputs)

\* An input whose amount, order id, extension keys and extension values hold
\* no colon and whose extension keys hold no equals sign.
Delimited(in) ==
    /\ NoColon(in.out_sum)
    /\ NoColon(in.inv_id)
    /\ \A i \in 1..Len(in.shp) :
           /\ NoColon(in.shp[i][1])
           /\ NoColon(in.shp[i][2])
           /\ \A j \in 1..Len(in.shp[i][1]) : in.shp[i][1][j] # "="

\* C19 as amended: the same, for inputs whose amounts, order ids, extension
\* keys and extension values contain no colon and whose extension keys
\* contain no equals sign.
DelimitedStringUnambiguous ==
    (sigOut.op \in {"sign_result", "sign_redirect"} /\ Delimited(sigIn))
        => DistinctFromOthers({ other \in CanonicalInputs : Delimited(other) })

\* A callback string was built for an extension map whose value holds an
\* equals sign, with another such input to tell it from.
DelimitedStringSignedReached ==
    /\ sigOut.op = "sign_result"
    /\ Delimited(sigIn)
    /\ Len(sigIn.shp) = 2
    /\ \E i \in 1..2 : \E j \in 1..Len(sigIn.shp[i][2]) : sigIn.shp[i][2][j] = "="

\* C17: when the environment provides no secret key #1 or no secret key #2,
\* the process serves nothing: no string is signed, no signature verified
\* and no URL built.
MissingSecretIsFatal ==
    (sigIn.env.ROBOKASSA_PASSWORD1 = None \/ sigIn.env.ROBOKASSA_PASSWORD2 = None)
        => sigOut.op \notin {"sign_redirect", "sign_result", "verify_result", "verify_return",
                              "build", "round_trip"}

\* C5 as stated: with secret key #1 different from secret key #2, the callback
\* verifier accepts no signature that is valid for the redirect formula,
\* whatever OutSum, InvId and Shp_ parameters the callback carries.
KeysSeparateTrust ==
    (/\ config.ROBOKASSA_PASSWORD1 # config.ROBOKASSA_PASSWORD2
     /\ sigOut.op = "verify_result"
     /\ sigOut.candidate \in RedirectSignatures[config])
        => ~sigOut.ok

\* C5 as amended: the same, when neither the merchant id, the amounts, the
\* order ids nor the two secrets contain a colon and secret key #1 does not
\* begin with "Shp_".
KeysSeparateTrustColonFree ==
    (/\ config.ROBOKASSA_PASSWORD1 # config.ROBOKASSA_PASSWORD2
     /\ NoColon(config.ROBOKASSA_MERCHANT_LOGIN)
     /\ NoColon(config.ROBOKASSA_PASSWORD1)
     /\ NoColon(config.ROBOKASSA_PASSWORD2)
     /\ ~StartsWith(config.ROBOKASSA_PASSWORD1, <<"S", "h", "p", "_">>)
     /\ \A o \in SigOutSums : NoColon(o)
     /\ \A id \in SigInvIds : NoColon(id)
     /\ sigOut.op = "verify_result"
     /\ sigOut.candidate \in RedirectSignatures[config])
        => ~sigOut.ok

\* A callback carrying the redirect digest of its own parameters was rejected.
RedirectDigestRejectedReached ==
    /\ config.ROBOKASSA_PASSWORD1 # config.ROBOKASSA_PASSWORD2
    /\ NoColon(config.ROBOKASSA_PASSWORD2)
    /\ sigOut.op = "verify_result"
    /\ sigOut.candidate
           = GatewayRedirectSignature(config, sigIn.out_sum, sigIn.inv_id, sigIn.shp)
    /\ sigIn.shp # <<>>
    /\ ~sigOut.ok

\* The characters a character of a digest is replaced by.
ReplacementChars == HexChars \cup {"g", "G", " "}

\* t is s with exactly one character replaced by a different one.
SingleReplacement(t, s) ==
    /\ Len(t) = Len(s)
    /\ Cardinality({i \in 1..Len(s) : t[i] # s[i]}) = 1

\* C6 as stated: the digest produced by signing verifies, and with any single
\* character replaced by a different character it does not.
SignedVerifiesAndAnyChangeRejected ==
    /\ sigOut.op = "sign_result" =>
           LET digest == _md5_upper(sigOut.text)
           IN  /\ AcceptedAsResult(config, sigIn, digest)
               /\ \A i \in 1..Len(digest), c \in ReplacementChars :
                      c # digest[i] => ~AcceptedAsResult(config, sigIn, Replace(digest, i, c))
    /\ sigOut.op = "sign_redirect" =>
           LET digest == _md5_upper(sigOut.text)
           IN  /\ AcceptedAsReturn(config, sigIn, digest)
               /\ \A i \in 1..Len(digest), c \in ReplacementChars :
                      c # digest[i] => ~AcceptedAsReturn(config, sigIn, Replace(digest, i, c))

\* C6 as amended: the digest produced by signing verifies, and with any single
\* character replaced by a character that is not the same letter in the other
\* case it does not.
SignedVerifiesAndOtherCharRejected ==
    /\ sigOut.op = "sign_result" =>
           LET digest == _md5_upper(sigOut.text)
           IN  /\ AcceptedAsResult(config, sigIn, digest)
               /\ \A i \in 1..Len(digest), c \in ReplacementChars :
                      UpperChar[c] # digest[i]
                          => ~AcceptedAsResult(config, sigIn, Replace(digest, i, c))
    /\ sigOut.op = "sign_redirect" =>
           LET digest == _md5_upper(sigOut.text)
           IN  /\ AcceptedAsReturn(config, sigIn, digest)
               /\ \A i \in 1..Len(digest), c \in ReplacementChars :
                      UpperChar[c] # digest[i]
                          => ~AcceptedAsReturn(config, sigIn, Replace(digest, i, c))
    /\ (/\ sigOut.op = "verify_result"
        /\ SingleReplacement(StrUpper(sigOut.candidate),
                             GatewayResultSignature(config, sigIn.out_sum, sigIn.inv_id, sigIn.shp)))
           => ~sigOut.ok
    /\ (/\ sigOut.op = "verify_return"
        /\ SingleReplacement(StrUpper(sigOut.candidate),
                             GatewayRedirectSignature(config, sigIn.out_sum, sigIn.inv_id, sigIn.shp)))
           => ~sigOut.ok

\* A callback whose digest had one character replaced was rejected.
ChangedDigestRejectedReached ==
    /\ sigOut.op = "verify_result"
    /\ SingleReplacement(sigOut.candidate,
                         GatewayResultSignature(config, sigIn.out_sum, sigIn.inv_id, sigIn.shp))
    /\ sigIn.shp # <<>>
    /\ ~sigOut.ok

\* s with the case of the characters at the positions in T switched.
ToggleCase(s, T) ==
    [i \in 1..Len(s) |->
        IF i \in T THEN (IF UpperChar[s[i]] = s[i] THEN LowerChar[s[i]] ELSE UpperChar[s[i]])
        ELSE s[i]]

\* Case variants of s: all upper, all lower, and s with the case of at most
\* two of its characters switched.
CaseVariants(s) ==
    LET letters == { i \in 1..Len(s) : UpperChar[s[i]] # LowerChar[s[i]] }
    IN  {StrUpper(s), StrLower(s)} \cup { ToggleCase(s, {i, j}) : i \in letters, j \in letters }

\* C7: on both paths a signature that is accepted is accepted in every case
\* variant, and the digest the program computes has no lower-case letter.
CaseInsensitiveOnBothPaths ==
    /\ (sigOut.op = "verify_result" /\ sigOut.ok) =>
           \A v \in CaseVariants(sigOut.candidate) : AcceptedAsResult(config, sigIn, v)
    /\ (sigOut.op = "verify_return" /\ sigOut.ok) =>
           \A v \in CaseVariants(sigOut.candidate) : AcceptedAsReturn(config, sigIn, v)
    /\ sigOut.op \in {"sign_result", "sign_redirect"} =>
           _md5_upper(sigOut.text) = StrUpper(_md5_upper(sigOut.text))

\* A lower-case signature was accepted by the callback.
LowerCaseAcceptedReached ==
    /\ sigOut.op = "verify_result"
    /\ sigOut.ok
    /\ sigOut.candidate = StrLower(sigOut.candidate)
    /\ sigOut.candidate # StrUpper(sigOut.candidate)

\* The orders in which the items of a dict can have been inserted.
Orderings(d) ==
    { [i \in 1..Len(d) |-> d[f[i]]] :
          f \in { g \in [1..Len(d) -> 1..Len(d)] : \A i, j \in 1..Len(d) : g[i] = g[j] => i = j } }

\* C8: the extension segment is the Shp_key=value fields in ascending key
\* order joined by colons, so every insertion order of the same pairs gives
\* the same segment and the same two digests.
ExtensionOrderIndependent ==
    sigOut.op = "format" =>
        /\ sigOut.text
               = Join(<<":">>, [i \in 1..Len(sigIn.shp) |->
                                   <<"S", "h", "p", "_">> \o AscendingItems(sigIn.shp)[i][1]
                                       \o <<"=">> \o AscendingItems(sigIn.shp)[i][2]])
        /\ \A d \in Orderings(sigIn.shp) :
               /\ _format_shp_part(d) = sigOut.text
               /\ build_payment_url_signature(config.ROBOKASSA_MERCHANT_LOGIN,
                                              config.ROBOKASSA_PASSWORD1,
                                              sigIn.out_sum, sigIn.inv_id, d)
                      = build_payment_url_signature(config.ROBOKASSA_MERCHANT_LOGIN,
                                                    config.ROBOKASSA_PASSWORD1,
                                                    sigIn.out_sum, sigIn.inv_id, sigIn.shp)
               /\ _md5_upper(verify_signature_from_result_base(
                                 sigIn.out_sum, sigIn.inv_id, config.ROBOKASSA_PASSWORD2, d))
                      = GatewayResultSignature(config, sigIn.out_sum, sigIn.inv_id, sigIn.shp)

\* An extension map inserted in descending key order was formatted.
UnsortedExtensionFormattedReached ==
    /\ sigOut.op = "format"
    /\ Len(sigIn.shp) >= 2
    /\ StrLess(sigIn.shp[2][1], sigIn.shp[1][1])

\* C9: the redirect string is merchant_id:amount:order_id:secret1 and the
\* callback string amount:order_id:secret2, each followed, only when the
\* extension map is non-empty, by a colon and the extension segment.
CanonicalStringsExact ==
    /\ sigOut.op = "sign_redirect" =>
           sigOut.text = CanonicalString(<<config.ROBOKASSA_MERCHANT_LOGIN,
                                           sigIn.out_sum, sigIn.inv_id>>,
                                         config.ROBOKASSA_PASSWORD1, sigIn.shp)
    /\ sigOut.op = "sign_result" =>
           sigOut.text = CanonicalString(<<sigIn.out_sum, sigIn.inv_id>>,
                                         config.ROBOKASSA_PASSWORD2, sigIn.shp)

\* A redirect string with an extension segment was built.
RedirectStringWithExtensionReached ==
    /\ sigOut.op = "sign_redirect"
    /\ Len(sigIn.shp) = 2
    /\ sigOut.text # <<>>

\* C10 as stated: the parameters of a URL from build_payment_url, read back,
\* pass the signature check of the browser return, whatever extra_params.
RoundTripValidates ==
    sigOut.op = "round_trip" => sigOut.ok

\* Whether extra_params leaves the signed parameters of the URL alone.
ExtraKeepsSignedParams(extra) ==
    \/ extra = None
    \/ \A k \in DictKeys(extra[1]) :
           /\ k \notin {K_OutSum, K_InvId, K_SignatureValue}
           /\ ~StartsWith(k, <<"S", "h", "p", "_">>)

\* C10 as amended: the same, when extra_params holds none of OutSum, InvId,
\* SignatureValue and no key beginning with "Shp_".
RoundTripValidatesUnlessOverridden ==
    (sigOut.op = "round_trip" /\ ExtraKeepsSignedParams(sigOut.extra)) => sigOut.ok

\* A URL with an extension map and an extra parameter passed the check.
RoundTripWithExtraReached ==
    /\ sigOut.op = "round_trip"
    /\ sigOut.extra # None
    /\ ExtraKeepsSignedParams(sigOut.extra)
    /\ sigIn.shp # <<>>
    /\ sigOut.ok

===========================================================================
